---- MODULE Spec2Model ----
(***************************************************************************)
(* Model of src/common/sr_btree.c, the sysrepo balanced binary tree, in    *)
(* its default build (USE_AVL_LIB undefined): a thin wrapper over the      *)
(* libredblack calls rbinit, rbsearch, rbfind, rbdelete, rbopenlist,       *)
(* rbreadlist, rbcloselist and rbdestroy.                                  *)
(*                                                                         *)
(* Items are caller-owned instances (pointers).  Several instances may     *)
(* carry the same key; the comparator looks at the key only.  The          *)
(* red-black tree is represented by the set of item pointers it stores;    *)
(* a tree node is identified by the item it holds.  The shape of the tree  *)
(* is not represented: the only place where it matters to the wrapper is   *)
(* which node rbdelete releases (the node found, or its in-order           *)
(* successor whose key is copied into the node found when that node has    *)
(* two children), and that is an input of the delete action.               *)
(*                                                                         *)
(* Allocation failure is modelled where the wrapper reports it             *)
(* (sr_btree_insert); rbopenlist is modelled with its allocation           *)
(* succeeding.                                                             *)
(***************************************************************************)
EXTENDS Integers, FiniteSets, Sequences, TLC

\* ---- bounds ----
NumKeys == 3
NumItems == 4
MaxIndex == 3

\* ---- values ----
NULL == 0
DANGLING == NULL - 1

Items == 1..NumItems
Indices == 0..MaxIndex

\* the key carried by an item instance: items i and i + NumKeys are two
\* instances with the same key
KeyOf(i) == ((i - 1) % NumKeys) + 1

\* the caller's comparator: orders items by key, 0 when the keys are equal
compare_item_cb(item1, item2) ==
    IF KeyOf(item1) < KeyOf(item2) THEN 0 - 1
    ELSE IF KeyOf(item1) > KeyOf(item2) THEN 1
    ELSE 0

\* the comparator handed to rbinit: forwards to the tree's comparator
sr_redblack_compare_item_cb(item1, item2) == compare_item_cb(item1, item2)

\* ---- libredblack, over the set of stored items ----

\* the stored item that compares equal to item, NULL if there is none
rbfind(item, tree) ==
    IF \E s \in tree : sr_redblack_compare_item_cb(item, s) = 0
    THEN CHOOSE s \in tree : sr_redblack_compare_item_cb(item, s) = 0
    ELSE NULL

\* number of stored items that sort before item
rb_rank(item, tree) ==
    Cardinality({s \in tree : sr_redblack_compare_item_cb(s, item) < 0})

\* the stored item at 0-based position k of the sort order, NULL past the end
rb_at(k, tree) ==
    IF \E s \in tree : rb_rank(s, tree) = k
    THEN CHOOSE s \in tree : rb_rank(s, tree) = k
    ELSE NULL

\* in-order successor of a stored item, NULL (RBNULL) for the last one
rb_successor(item, tree) == rb_at(rb_rank(item, tree) + 1, tree)

\* rbsearch linking a new node without looking for an equal key first
rbsearch_no_find(item, tree, alloc_ok) ==
    IF item \in tree THEN [ret |-> item, tree |-> tree]
    ELSE IF alloc_ok THEN [ret |-> item, tree |-> tree \cup {item}]
    ELSE [ret |-> NULL, tree |-> tree]

\* find-or-insert: returns the stored item equal to item if there is one,
\* otherwise links a new node holding item and returns item; returns NULL
\* and leaves the tree alone when the node cannot be allocated
rbsearch(item, tree, alloc_ok) ==
    IF rbfind(item, tree) # NULL
    THEN [ret |-> rbfind(item, tree), tree |-> tree]
    ELSE IF alloc_ok
    THEN [ret |-> item, tree |-> tree \cup {item}]
    ELSE [ret |-> NULL, tree |-> tree]

\* removes the node whose key compares equal to item, if any
rbdelete(item, tree) ==
    [ret |-> rbfind(item, tree), tree |-> tree \ {rbfind(item, tree)}]

\* An RBLIST: nextp is the node (item) the next read returns, NULL at the
\* end of the walk, DANGLING when the node it pointed to has been released.
NoList == [open |-> FALSE, nextp |-> NULL]

rbopenlist(tree) == [open |-> TRUE, nextp |-> rb_at(0, tree)]

\* the outcomes of reading the list: the item at nextp, advancing nextp to
\* its successor; NULL at the end.  Reading through a dangling nextp is a
\* read of released memory: any value may come back and nextp may become
\* anything.
rbreadlist(list, tree) ==
    IF list.nextp = DANGLING
    THEN {[ret |-> r, list |-> [open |-> TRUE, nextp |-> np]] :
            r \in Items \cup {NULL}, np \in tree \cup {NULL, DANGLING}}
    ELSE IF list.nextp = NULL
    THEN {[ret |-> NULL, list |-> list]}
    ELSE {[ret |-> list.nextp,
           list |-> [open |-> TRUE, nextp |-> rb_successor(list.nextp, tree)]]}

\* what rb_delete does to an open list that the wrapper still holds:
\* z is the node found; when z has two children the key of its successor y
\* is copied into z and y is released, otherwise z itself is released.
rb_delete_list(list, z, two_children, tree) ==
    IF ~list.open \/ z = NULL THEN list
    ELSE LET y == IF two_children THEN rb_successor(z, tree) ELSE z
         IN  IF list.nextp = y THEN [list EXCEPT !.nextp = DANGLING]
             ELSE IF list.nextp = z THEN [list EXCEPT !.nextp = y]
             ELSE list

\* a node can have two children only if it has both an in-order
\* predecessor and an in-order successor
rb_may_have_two_children(z, tree) ==
    /\ z # NULL
    /\ rb_rank(z, tree) > 0
    /\ rb_successor(z, tree) # NULL

\* ---- state ----
VARIABLES
    alive,          \* the tree context exists (init done, cleanup not yet)
    free_item_cb,   \* TRUE iff a destructor was registered at init
    rb_tree,        \* tree->rb_tree: the set of stored item pointers
    rb_list,        \* tree->rb_list: the walk list of get_at, NoList if NULL
    open_lists,     \* number of RBLISTs opened and not yet closed
    freed,          \* per item, how often the destructor was invoked on it
    owed,           \* with a destructor registered: the items inserted with
                    \* SR_ERR_OK on which it has not been invoked yet
    last,           \* the last call: its arguments, results and pre-state
    walk            \* the get_at calls since the last get_at(0)

vars == <<alive, free_item_cb, rb_tree, rb_list, open_lists, freed, owed,
          last, walk>>

\* walk: n is the number of get_at calls since and including the last
\* get_at(0), 0 before the first one (it stops counting past MaxIndex + 1);
\* consec: their indices were 0, 1, ..., n - 1; others: which other calls
\* were made in between ("none", "search": only sr_btree_search, "any");
\* unmutated: no call changed the set of stored items in between.
NoWalk == [n |-> 0, consec |-> FALSE, others |-> "any", unmutated |-> FALSE]

\* the call made right before a search of the same item
NoBefore == [op |-> "", rc |-> "", stored |-> NULL]

\* the record of a call: operation, argument, return code, returned item,
\* whether a node allocation was attempted and failed, and the state before
Call(op, arg, rc, ret, alloc_failed, before) ==
    [op |-> op, arg |-> arg, rc |-> rc, ret |-> ret,
     alloc_failed |-> alloc_failed, before |-> before,
     pre_tree |-> rb_tree, pre_list |-> rb_list, pre_freed |-> freed]

\* the caller passes pointers to objects that still exist
Live(item) == freed[item] = 0

\* sr_btree_init: an empty tree, no walk list (calloc), the callbacks stored
Init ==
    /\ alive = TRUE
    /\ free_item_cb \in BOOLEAN
    /\ rb_tree = {}
    /\ rb_list = NoList
    /\ open_lists = 0
    /\ freed = [i \in Items |-> 0]
    /\ owed = {}
    /\ last = [op |-> "init", arg |-> NULL, rc |-> "", ret |-> NULL,
               alloc_failed |-> FALSE, before |-> NoBefore,
               pre_tree |-> {}, pre_list |-> NoList,
               pre_freed |-> [i \in Items |-> 0]]
    /\ walk = NoWalk

\* a call other than get_at, which changed the tree or not
WalkAfterOther(op, changed) ==
    IF walk.n = 0 THEN walk
    ELSE [walk EXCEPT !.others = IF op = "search" /\ @ # "any"
                                 THEN "search" ELSE "any",
                      !.unmutated = @ /\ ~changed]

\* insert_rc without the check that rbsearch returned the argument itself
insert_rc_no_exists(tmp_item, item) ==
    IF tmp_item = NULL THEN "SR_ERR_NOMEM" ELSE "SR_ERR_OK"

\* insert_rc without the check for a failed allocation
insert_rc_no_nomem(tmp_item, item) ==
    IF tmp_item # item THEN "SR_ERR_DATA_EXISTS" ELSE "SR_ERR_OK"

\* the return code of sr_btree_insert from what rbsearch returned
insert_rc(tmp_item, item) ==
    IF tmp_item = NULL THEN "SR_ERR_NOMEM"
    ELSE IF tmp_item # item THEN "SR_ERR_DATA_EXISTS"
    ELSE "SR_ERR_OK"

sr_btree_insert(item, alloc_ok) ==
    /\ alive
    /\ Live(item)
    /\ LET r  == rbsearch(item, rb_tree, alloc_ok)
           rc == insert_rc(r.ret, item)
       IN  /\ rb_tree' = r.tree
           /\ owed' = IF rc = "SR_ERR_OK" /\ free_item_cb
                      THEN owed \cup {item} ELSE owed
           /\ last' = Call("insert", item, rc, NULL,
                           rbfind(item, rb_tree) = NULL /\ ~alloc_ok, NoBefore)
           /\ walk' = WalkAfterOther("insert", r.tree # rb_tree)
    /\ UNCHANGED <<alive, free_item_cb, rb_list, open_lists, freed>>

\* the destructor calls of sr_btree_delete: on the argument, if registered
delete_freed(item, cb, f) ==
    IF cb THEN [f EXCEPT ![item] = @ + 1] ELSE f

sr_btree_delete(item, two_children) ==
    /\ alive
    /\ Live(item)
    /\ two_children => rb_may_have_two_children(rbfind(item, rb_tree), rb_tree)
    /\ LET r == rbdelete(item, rb_tree)
       IN  /\ rb_tree' = r.tree
           /\ rb_list' = rb_delete_list(rb_list, r.ret, two_children, rb_tree)
           /\ freed' = delete_freed(item, free_item_cb, freed)
           /\ owed' = {i \in owed : freed'[i] = 0}
           /\ last' = Call("delete", item, "", NULL, FALSE, NoBefore)
           /\ walk' = WalkAfterOther("delete", r.tree # rb_tree)
    /\ UNCHANGED <<alive, free_item_cb, open_lists>>

\* sr_btree_search dropping the walk list of get_at
sr_btree_search_drops_list(item) ==
    /\ alive
    /\ Live(item)
    /\ last' = Call("search", item, "", rbfind(item, rb_tree), FALSE, NoBefore)
    /\ walk' = WalkAfterOther("search", FALSE)
    /\ rb_list' = NoList
    /\ open_lists' = 0
    /\ UNCHANGED <<alive, free_item_cb, rb_tree, freed, owed>>

sr_btree_search(item) ==
    /\ alive
    /\ Live(item)
    /\ last' = Call("search", item, "", rbfind(item, rb_tree), FALSE,
                    IF last.op \in {"insert", "delete"} /\ last.arg = item
                    THEN [op |-> last.op, rc |-> last.rc,
                          stored |-> rbfind(item, last.pre_tree)]
                    ELSE NoBefore)
    /\ walk' = WalkAfterOther("search", FALSE)
    /\ UNCHANGED <<alive, free_item_cb, rb_tree, rb_list, open_lists, freed,
                   owed>>

\* get_at_list opening a list only when none is open
get_at_list_no_reset(index, list, tree) ==
    IF index = 0 /\ ~list.open THEN rbopenlist(tree) ELSE list

\* get_at_list opening a list whenever none is open
get_at_list_lazy_reopen(index, list, tree) ==
    IF index = 0 \/ ~list.open THEN rbopenlist(tree) ELSE list

\* get_at_list taking index 1 for the start of a walk
get_at_list_reset_on_one(index, list, tree) ==
    IF index = 1 THEN rbopenlist(tree) ELSE list

\* the list sr_btree_get_at reads from: a fresh one when index is 0
get_at_list(index, list, tree) ==
    IF index = 0 THEN rbopenlist(tree) ELSE list

\* get_at_keep keeping the pointer to the list it closed
get_at_keep_closed_list(item, list) == list

\* get_at_keep dropping the list after every read
get_at_keep_one_read(item, list) == NoList

\* the list sr_btree_get_at keeps after the read returned item
get_at_keep(item, list) ==
    IF item = NULL THEN NoList ELSE list

WalkAfterGetAt(index) ==
    IF index = 0
    THEN [n |-> 1, consec |-> TRUE, others |-> "none", unmutated |-> TRUE]
    ELSE IF walk.n = 0 THEN walk
    ELSE [walk EXCEPT !.n = IF @ > MaxIndex THEN @ ELSE @ + 1,
                      !.consec = @ /\ index = walk.n]

sr_btree_get_at(index) ==
    /\ alive
    /\ LET list == get_at_list(index, rb_list, rb_tree)
       IN  IF list.open
           THEN \E o \in rbreadlist(list, rb_tree) :
                  /\ rb_list' = get_at_keep(o.ret, o.list)
                  /\ open_lists' = open_lists
                        - (IF index = 0 /\ rb_list.open THEN 1 ELSE 0)
                        + (IF index = 0 THEN 1 ELSE 0)
                        - (IF o.ret = NULL THEN 1 ELSE 0)
                  /\ last' = Call("get_at", index, "", o.ret, FALSE, NoBefore)
           ELSE /\ rb_list' = rb_list
                /\ open_lists' = open_lists
                /\ last' = Call("get_at", index, "", NULL, FALSE, NoBefore)
    /\ walk' = WalkAfterGetAt(index)
    /\ UNCHANGED <<alive, free_item_cb, rb_tree, freed, owed>>

\* the destructor calls of sr_btree_cleanup: one per item read from a list
\* opened on the tree, if a destructor is registered
cleanup_freed(tree, cb, f) ==
    IF cb THEN [i \in Items |-> IF i \in tree THEN f[i] + 1 ELSE f[i]] ELSE f

\* sr_btree_cleanup without the rbcloselist of the walk list of get_at
sr_btree_cleanup_leaks_list ==
    /\ alive
    /\ alive' = FALSE
    /\ freed' = cleanup_freed(rb_tree, free_item_cb, freed)
    /\ owed' = {i \in owed : freed'[i] = 0}
    /\ open_lists' = open_lists
    /\ rb_list' = NoList
    /\ rb_tree' = {}
    /\ last' = Call("cleanup", NULL, "", NULL, FALSE, NoBefore)
    /\ walk' = NoWalk
    /\ UNCHANGED free_item_cb

sr_btree_cleanup ==
    /\ alive
    /\ alive' = FALSE
    /\ freed' = cleanup_freed(rb_tree, free_item_cb, freed)
    /\ owed' = {i \in owed : freed'[i] = 0}
    /\ open_lists' = open_lists - (IF rb_list.open THEN 1 ELSE 0)
    /\ rb_list' = NoList
    /\ rb_tree' = {}
    /\ last' = Call("cleanup", NULL, "", NULL, FALSE, NoBefore)
    /\ walk' = NoWalk
    /\ UNCHANGED free_item_cb

Next ==
    \/ \E item \in Items, alloc_ok \in BOOLEAN : sr_btree_insert(item, alloc_ok)
    \/ \E item \in Items, two_children \in BOOLEAN :
          sr_btree_delete(item, two_children)
    \/ \E item \in Items : sr_btree_search(item)
    \/ \E index \in Indices : sr_btree_get_at(index)
    \/ sr_btree_cleanup

Spec == Init /\ [][Next]_vars

TypeOK ==
    /\ alive \in BOOLEAN
    /\ free_item_cb \in BOOLEAN
    /\ rb_tree \subseteq Items
    /\ rb_list.open \in BOOLEAN
    /\ open_lists \in 0..1
    /\ \A i \in Items : freed[i] \in 0..1

\* ---- properties ----

\* number of items stored
Count == Cardinality(rb_tree)

C2_DuplicateRejected ==
    (last.op = "insert" /\ rbfind(last.arg, last.pre_tree) # NULL)
    => (last.rc = "SR_ERR_DATA_EXISTS" /\ rb_tree = last.pre_tree)

\* C3: an insert or delete that changes the tree while a walk is open
\* closes the cursor: the cursor never references a released node, and
\* after the change get_at with a nonzero index returns none until
\* get_at(0) reopens the walk.
C3_MutationClosesCursor ==
    /\ rb_list.nextp # DANGLING
    /\ (last.op \in {"insert", "delete"} /\ last.pre_list.open
          /\ rb_tree # last.pre_tree)
       => ~rb_list.open
    /\ (last.op = "get_at" /\ last.arg # 0 /\ walk.n > 0 /\ ~walk.unmutated)
       => last.ret = NULL

\* C4: with a destructor registered, delete of an argument that compares
\* equal to a stored item removes the stored item and invokes the
\* destructor exactly once, on the stored item removed, and not on the
\* argument when that is another instance.
C4_DeleteDestroysStored ==
    (last.op = "delete" /\ free_item_cb
        /\ rbfind(last.arg, last.pre_tree) # NULL)
    => LET s == rbfind(last.arg, last.pre_tree)
       IN  /\ rb_tree = last.pre_tree \ {s}
           /\ freed = [last.pre_freed EXCEPT ![s] = @ + 1]

\* C5: delete of an argument that no stored item compares equal to is a
\* no-op: stored items and cursor unchanged, the destructor invoked on
\* nothing.
C5_DeleteAbsentNoOp ==
    (last.op = "delete" /\ rbfind(last.arg, last.pre_tree) = NULL)
    => /\ rb_tree = last.pre_tree
       /\ rb_list = last.pre_list
       /\ freed = last.pre_freed

\* C6: search(x) right after a successful insert(x) returns the instance x;
\* right after a rejected duplicate insert(x) it returns the instance that
\* was stored before; right after delete(x) it returns none.
C6_RoundTrip ==
    last.op = "search"
    => /\ (last.before.op = "insert" /\ last.before.rc = "SR_ERR_OK")
          => last.ret = last.arg
       /\ (last.before.op = "insert"
            /\ last.before.rc = "SR_ERR_DATA_EXISTS")
          => (last.ret = last.before.stored /\ last.ret # NULL
                /\ last.ret # last.arg)
       /\ last.before.op = "delete" => last.ret = NULL

\* a search right after a rejected duplicate insert of another instance
C6_Witness ==
    /\ last.op = "search"
    /\ last.before.op = "insert"
    /\ last.before.rc = "SR_ERR_DATA_EXISTS"
    /\ last.ret # NULL /\ last.ret # last.arg

\* C7: with a destructor registered, cleanup invokes it exactly once on
\* each item still stored and on nothing else; no instance is ever
\* destroyed more than once, and every item ever successfully inserted has
\* been destroyed exactly once when cleanup returns.
C7_CleanupDestroysEachOnce ==
    free_item_cb
    => /\ \A i \in Items : freed[i] <= 1
       /\ last.op = "cleanup"
          => /\ freed = [i \in Items |->
                           IF i \in last.pre_tree THEN last.pre_freed[i] + 1
                           ELSE last.pre_freed[i]]
             /\ owed = {}

\* C8: search changes neither the stored items nor the cursor, so a walk
\* interrupted by searches yields what the uninterrupted walk yields.
C8_SearchPure ==
    /\ last.op = "search"
       => (rb_tree = last.pre_tree /\ rb_list = last.pre_list)
    /\ (last.op = "get_at" /\ walk.consec /\ walk.others = "search")
       => last.ret = rb_at(walk.n - 1, rb_tree)

\* a walk over two or more items, interrupted by searches, at its last item
C8_Witness ==
    /\ last.op = "get_at" /\ walk.consec /\ walk.others = "search"
    /\ Count >= 2 /\ walk.n = Count
    /\ last.ret # NULL

\* C9 as stated: get_at(index) with index >= n returns none whatever
\* get_at calls came before.
C9_OutOfRangeNone ==
    (last.op = "get_at" /\ last.arg >= Count) => last.ret = NULL

\* C9 amended: get_at(index) with index >= n returns none when the cursor
\* is closed and index is not 0, or when more than n get_at calls were
\* made since and including the last get_at(0) with no change of the
\* stored items in between.
C9_OutOfRangeNoneAfterWalk ==
    (last.op = "get_at" /\ last.arg >= Count
        /\ \/ (last.arg # 0 /\ ~last.pre_list.open)
           \/ (walk.unmutated /\ walk.n > Count))
    => last.ret = NULL

\* an out-of-range get_at answered none after a walk of all items whose
\* indices were not the consecutive ones
C9_Witness ==
    /\ last.op = "get_at" /\ last.arg >= Count
    /\ Count >= 2
    /\ walk.unmutated /\ walk.n = Count + 1 /\ ~walk.consec
    /\ last.pre_list.open
    /\ last.ret = NULL

\* C10: an insert of a key not present whose node allocation fails returns
\* SR_ERR_NOMEM and leaves the tree as before (same stored items, the item
\* not found by search, no destructor call); insert never returns
\* SR_ERR_NOMEM after having added the item.
C10_NoMemAllOrNothing ==
    last.op = "insert"
    => /\ last.alloc_failed => last.rc = "SR_ERR_NOMEM"
       /\ last.rc = "SR_ERR_NOMEM"
          => /\ rb_tree = last.pre_tree
             /\ rbfind(last.arg, rb_tree) = NULL
             /\ freed = last.pre_freed
             /\ last.alloc_failed

\* a failed allocation on a tree that holds other items, during a walk
C10_Witness ==
    /\ last.op = "insert" /\ last.alloc_failed
    /\ last.rc = "SR_ERR_NOMEM"
    /\ Count >= 1 /\ rb_list.open

\* C11: in every reachable state the tree holds at most one item per key as
\* judged by the comparator.
C11_OneItemPerKey ==
    \A a \in rb_tree, b \in rb_tree :
        sr_redblack_compare_item_cb(a, b) = 0 => a = b

\* an insert of another instance of a stored key, on a tree of two or more
\* items
C11_Witness ==
    /\ last.op = "insert"
    /\ rbfind(last.arg, last.pre_tree) # NULL
    /\ rbfind(last.arg, last.pre_tree) # last.arg
    /\ Count >= 2

C14_ClosedUntilReset ==
    /\ [](last.op = "get_at" /\ last.ret = NULL => ~rb_list.open)
    /\ [](last.op = "get_at" /\ last.arg # 0 /\ ~last.pre_list.open
            => last.ret = NULL)
    /\ [][(~rb_list.open /\ rb_list'.open)
            => (last'.op = "get_at" /\ last'.arg = 0)]_vars

\* a nonzero get_at answered none by the closed cursor, one call after the
\* walk ran off the end of a non-empty tree
C14_Witness ==
    /\ last.op = "get_at" /\ last.arg # 0
    /\ ~last.pre_list.open
    /\ walk.unmutated /\ Count >= 1 /\ walk.n = Count + 2
    /\ last.ret = NULL

C16_ListAccounting ==
    /\ open_lists = (IF rb_list.open THEN 1 ELSE 0)
    /\ ~alive => (open_lists = 0 /\ ~rb_list.open)

\* cleanup of a tree whose walk was left open part-way
C16_Witness ==
    /\ last.op = "cleanup"
    /\ last.pre_list.open /\ last.pre_list.nextp # NULL
    /\ open_lists = 0
====
